---- MODULE Spec2Model ----
(***************************************************************************)
(* Distributed token bucket (pkg/dtb/dtb.go).                              *)
(*                                                                         *)
(* Several processes share one Redis store holding the lock key            *)
(* "<bucket>_lock" and the token list "<bucket>".  Every process runs one  *)
(* fill goroutine (started by NewDTB) and any number of GetToken callers.  *)
(*                                                                         *)
(* Time is discrete: one unit is 1/SecUnits of a second.  time.Now() has   *)
(* sub-second resolution, the value stored in the lock key is              *)
(* time.Time.Unix(), i.e. whole seconds.                                   *)
(***************************************************************************)
EXTENDS Integers, Sequences, FiniteSets, TLC

\* ---------------------------------------------------------------- bounds
SecUnits == 3      \* clock units per second (resolution of time.Now())
MaxTime == 5       \* horizon of the clock, in units
MaxFaults == 1     \* store operations that may fail in one execution
MaxCalls == 2      \* GetToken calls in one execution
MaxDelays == 1     \* clock units that pass while some goroutine's step is due
capacity == 2      \* dtb.capacity, the same for every process

Procs == {"p1", "p2"}          \* processes, one DTB handle each
Callers == {"c1", "c2"}        \* goroutines calling GetToken
Cadences == {1, SecUnits}      \* dtb.cadence: one clock unit (under 500 ms), one second

\* The handle each caller calls GetToken on: one caller in each process.
HandleOf(c) == IF c = "c1" THEN "p1" ELSE "p2"

Token == ""                    \* LPush(bucketName, nil) stores an empty string

VARIABLES
    now,        \* wall clock, in units
    cadence,    \* dtb.cadence, in units (the same for every process)
    lock,       \* the lock key: << >> when unset, <<v>> when it holds v (seconds)
    queue,      \* the token list, head first
    pc,         \* position of each process's fill goroutine
    wake,       \* when the goroutine's time.Sleep / next tick is due
    nowL,       \* acquireLock's local `now`
    late,       \* history: the goroutine has been held up past a due step
    delays,     \* history: clock units that passed while a step was due
    faults,     \* history: store operations that have failed
    failedOp,   \* history: the store operation of the fill loop that failed last
    everActive, \* history: processes whose acquireLock returned a lock id
    peak,       \* history: the most processes that were Active at one time
    raced,      \* history: processes that had read a passed lease and not yet
                \* swapped when another process's GetSet replaced it
    cpc,        \* position of each GetToken caller
    nilRet,     \* history: GetToken calls that returned nil
    errRet,     \* history: per handle, GetToken calls that returned an error
    popped      \* history: elements BRPop removed from the list

vars == <<now, cadence, lock, queue, pc, wake, nowL, late, delays, faults,
          failedOp, everActive, peak, raced, cpc, nilRet, errRet, popped>>

\* ---------------------------------------------------------------- helpers

\* time.Time.Unix(): whole seconds, the sub-second part is dropped.
Unix(t) == t \div SecUnits

\* time.Unix(s, 0): the instant of second s.
FromUnix(s) == s * SecUnits

\* dtb.lockDuration(): two times the cadence.
lockDuration == 2 * cadence

\* now.Add(dtb.lockDuration()).Unix()
LockVal(t) == Unix(t + lockDuration)

\* A takeover that does not look at the value read: every present lock key
\* counts as passed.
ExpiredAlways(lockUnix, t) == TRUE

\* Mutant of Expired: the comparison turned round (After for Before).
ExpiredReversed(lockUnix, t) == FromUnix(lockUnix) > t

\* time.Unix(lockUnix, 0).Before(now)
Expired(lockUnix, t) == FromUnix(lockUnix) < t

\* time.Unix(i, 0).After(now)
StillHeld(i, t) == FromUnix(i) > t

\* A capacity test that always finds the list full: nothing is pushed.
UnderCapacityNever(n) == FALSE

\* Mutant of UnderCapacity: <= for <.
UnderCapacityOffByOne(n) == n <= capacity

\* Mutant of UnderCapacity: the capacity test left out.
UnderCapacityAlways(n) == n >= 0

\* tokensInBucket.Val() < dtb.capacity
UnderCapacity(n) == n < capacity

AcquiringPcs == {"sleep", "setnx", "get", "getset"}
ActivePcs == {"llen", "lpush", "set", "tick"}
StorePcs == {"setnx", "get", "getset", "llen", "lpush", "set"}

Acquiring(p) == pc[p] \in AcquiringPcs
Active(p) == pc[p] \in ActivePcs

\* A step of p is due now: a store command to issue, or an elapsed timer.
Due(p) ==
    \/ pc[p] \in StorePcs
    \/ pc[p] \in {"sleep", "tick"} /\ wake[p] <= now

\* The next tick of a ticker of period cadence whose pending tick fell at w,
\* received at the current time: ticks missed by a slow receiver are dropped.
NextTick(w) == w + cadence * (((now - w) \div cadence) + 1)

\* Tokens pushed so far: those still in the list and those popped.
pushed == popped + Len(queue)

\* GetToken calls started and not aborted by the death of their process.
calls ==
    nilRet + errRet["p1"] + errRet["p2"]
      + Cardinality({c \in Callers : cpc[c] = "brpop"})

\* ---------------------------------------------------------------- Init

\* The store outlives the processes: the lock key is unset, or still holds
\* the value a perished owner of an earlier run left in it.
Init ==
    /\ now = 0
    /\ cadence \in Cadences
    /\ lock \in {<< >>, <<0>>}
    /\ queue = << >>
    /\ pc = [p \in Procs |-> "none"]
    /\ wake = [p \in Procs |-> 0]
    /\ nowL = [p \in Procs |-> 0]
    /\ late = [p \in Procs |-> FALSE]
    /\ delays = 0
    /\ faults = 0
    /\ failedOp = [p \in Procs |-> "none"]
    /\ everActive = {}
    /\ peak = 0
    /\ raced = {}
    /\ cpc = [c \in Callers |-> "idle"]
    /\ nilRet = 0
    /\ errRet = [p \in Procs |-> 0]
    /\ popped = 0

\* ---------------------------------------------------------------- fill

storeVars == <<lock, queue>>
callVars == <<cpc, nilRet, errRet, popped>>
clockVars == <<now, cadence, late, delays>>

\* NewDTB: makes the handle and starts fill, which first sleeps one cadence.
\* Processes start within the first second, at any phase of the clock.
NewDTB(p) ==
    /\ pc[p] = "none"
    /\ now < SecUnits
    /\ pc' = [pc EXCEPT ![p] = "sleep"]
    /\ wake' = [wake EXCEPT ![p] = now + cadence]
    /\ UNCHANGED <<clockVars, storeVars, callVars, nowL, faults, failedOp,
                   everActive, peak, raced>>

\* dtb.errors <- err; the goroutine blocks until a GetToken receives.
Post(p, op) ==
    /\ faults < MaxFaults
    /\ faults' = faults + 1
    /\ failedOp' = [failedOp EXCEPT ![p] = op]
    /\ pc' = [pc EXCEPT ![p] = "send"]
    /\ wake' = [wake EXCEPT ![p] = 0]
    /\ nowL' = [nowL EXCEPT ![p] = 0]

\* A first loop that ends on any return of acquireLock without an error: the
\* process that was told not-owner starts filling all the same.
NotOwnerFills(p) ==
    /\ pc' = [pc EXCEPT ![p] = "llen"]
    /\ wake' = [wake EXCEPT ![p] = now + cadence]
    /\ nowL' = [nowL EXCEPT ![p] = 0]
    /\ UNCHANGED <<everActive, peak>>

\* acquireLock returned nil, nil: the for loop sleeps again.
NotOwner(p) ==
    /\ pc' = [pc EXCEPT ![p] = "sleep"]
    /\ wake' = [wake EXCEPT ![p] = now + cadence]
    /\ nowL' = [nowL EXCEPT ![p] = 0]
    /\ UNCHANGED <<everActive, peak>>

\* acquireLock returned &lockVal: the first loop ends, time.Tick starts and
\* the loop body runs at once.
Owner(p) ==
    /\ pc' = [pc EXCEPT ![p] = "llen"]
    /\ wake' = [wake EXCEPT ![p] = now + cadence]
    /\ nowL' = [nowL EXCEPT ![p] = 0]
    /\ everActive' = everActive \cup {p}
    /\ peak' = IF Cardinality({q \in Procs : Active(q)}) + 1 > peak
               THEN Cardinality({q \in Procs : Active(q)}) + 1
               ELSE peak

\* time.Sleep(dtb.cadence) is over; acquireLock reads the clock.
AcquireLock(p) ==
    /\ pc[p] = "sleep"
    /\ wake[p] <= now
    /\ nowL' = [nowL EXCEPT ![p] = now]
    /\ pc' = [pc EXCEPT ![p] = "setnx"]
    /\ UNCHANGED <<clockVars, storeVars, callVars, wake, faults, failedOp,
                   everActive, peak, raced>>

\* dtb.rc.SetNX(lockKey, lockVal, 0)
SetNX(p) ==
    /\ pc[p] = "setnx"
    /\ \/ /\ Post(p, "setnx")
          /\ UNCHANGED <<lock, everActive, peak>>
       \/ /\ lock = << >>
          /\ lock' = <<LockVal(nowL[p])>>
          /\ Owner(p)
          /\ UNCHANGED <<faults, failedOp>>
       \/ /\ lock # << >>
          /\ pc' = [pc EXCEPT ![p] = "get"]
          /\ UNCHANGED <<lock, wake, nowL, everActive, peak, faults, failedOp>>
    /\ UNCHANGED <<clockVars, queue, callVars, raced>>

\* dtb.rc.Get(lockKey).Int64() and the expiry test
Get(p) ==
    /\ pc[p] = "get"
    /\ \/ /\ Post(p, "get")
          /\ UNCHANGED <<everActive, peak>>
       \/ /\ Expired(lock[1], nowL[p])
          /\ pc' = [pc EXCEPT ![p] = "getset"]
          /\ UNCHANGED <<wake, nowL, everActive, peak, faults, failedOp>>
       \/ /\ ~Expired(lock[1], nowL[p])
          /\ NotOwner(p)
          /\ UNCHANGED <<faults, failedOp>>
    /\ UNCHANGED <<clockVars, storeVars, callVars, raced>>

\* dtb.rc.GetSet(lockKey, lockVal) and the test of the value it returns
GetSet(p) ==
    /\ pc[p] = "getset"
    /\ \/ /\ Post(p, "getset")
          /\ UNCHANGED <<lock, everActive, peak, raced>>
       \/ /\ lock' = <<LockVal(nowL[p])>>
          /\ IF StillHeld(lock[1], nowL[p]) THEN NotOwner(p) ELSE Owner(p)
          /\ raced' = (raced \ {p}) \cup {q \in Procs \ {p} : pc[q] = "getset"}
          /\ UNCHANGED <<faults, failedOp>>
    /\ UNCHANGED <<clockVars, queue, callVars>>

\* A loop body that renews the lease only on the passes that push: with the
\* list at capacity it goes straight back to waiting for the next tick.
LLenRenewsOnPush(p) ==
    /\ pc[p] = "llen"
    /\ \/ Post(p, "llen")
       \/ /\ pc' = [pc EXCEPT ![p] =
                       IF UnderCapacity(Len(queue)) THEN "lpush" ELSE "tick"]
          /\ UNCHANGED <<wake, nowL, faults, failedOp>>
    /\ UNCHANGED <<clockVars, storeVars, callVars, everActive, peak, raced>>

\* dtb.rc.LLen(dtb.bucketName) and the capacity test
LLen(p) ==
    /\ pc[p] = "llen"
    /\ \/ Post(p, "llen")
       \/ /\ pc' = [pc EXCEPT ![p] =
                       IF UnderCapacity(Len(queue)) THEN "lpush" ELSE "set"]
          /\ UNCHANGED <<wake, nowL, faults, failedOp>>
    /\ UNCHANGED <<clockVars, storeVars, callVars, everActive, peak, raced>>

\* A push of two placeholders after one capacity test.
LPushPair(p) ==
    /\ pc[p] = "lpush"
    /\ \/ /\ Post(p, "lpush")
          /\ UNCHANGED queue
       \/ /\ queue' = <<Token, Token>> \o queue
          /\ pc' = [pc EXCEPT ![p] = "set"]
          /\ UNCHANGED <<wake, nowL, faults, failedOp>>
    /\ UNCHANGED <<clockVars, lock, callVars, everActive, peak, raced>>

\* dtb.rc.LPush(dtb.bucketName, nil)
LPush(p) ==
    /\ pc[p] = "lpush"
    /\ \/ /\ Post(p, "lpush")
          /\ UNCHANGED queue
       \/ /\ queue' = <<Token>> \o queue
          /\ pc' = [pc EXCEPT ![p] = "set"]
          /\ UNCHANGED <<wake, nowL, faults, failedOp>>
    /\ UNCHANGED <<clockVars, lock, callVars, everActive, peak, raced>>

\* dtb.rc.Set(lockKey, time.Now().Add(lockDuration).Unix(), 0); the command's
\* result is dropped, so a failed Set only leaves the key as it was.
Set(p) ==
    /\ pc[p] = "set"
    /\ \/ /\ faults < MaxFaults
          /\ faults' = faults + 1
          /\ failedOp' = [failedOp EXCEPT ![p] = "set"]
          /\ UNCHANGED lock
       \/ /\ lock' = <<LockVal(now)>>
          /\ UNCHANGED <<faults, failedOp>>
    /\ pc' = [pc EXCEPT ![p] = "tick"]
    /\ UNCHANGED <<clockVars, queue, callVars, wake, nowL, everActive, peak, raced>>

\* <-c: the next tick of time.Tick(dtb.cadence) arrives.
Tick(p) ==
    /\ pc[p] = "tick"
    /\ wake[p] <= now
    /\ wake' = [wake EXCEPT ![p] = NextTick(wake[p])]
    /\ pc' = [pc EXCEPT ![p] = "llen"]
    /\ UNCHANGED <<clockVars, storeVars, callVars, nowL, faults, failedOp,
                   everActive, peak, raced>>

Fill(p) ==
    \/ AcquireLock(p)
    \/ SetNX(p)
    \/ Get(p)
    \/ GetSet(p)
    \/ LLen(p)
    \/ LPush(p)
    \/ Set(p)
    \/ Tick(p)

\* ---------------------------------------------------------------- GetToken

\* Mutant of Received: the error is read but the send stays pending.
ReceivedKept(h) == pc

\* The receive of the select completes the blocked send; fill then returns.
Received(h) == [pc EXCEPT ![h] = "done"]

\* A GetToken that issues its BRPop before it looks at dtb.errors: the call
\* that returns the error has taken a token as well.
GetTokenPopsFirst(c) ==
    /\ cpc[c] = "idle"
    /\ calls < MaxCalls
    /\ pc[HandleOf(c)] \notin {"none", "dead"}
    /\ IF pc[HandleOf(c)] = "send"
       THEN /\ pc' = Received(HandleOf(c))
            /\ errRet' = [errRet EXCEPT ![HandleOf(c)] = @ + 1]
            /\ queue' = IF queue = << >> THEN queue
                        ELSE SubSeq(queue, 1, Len(queue) - 1)
            /\ popped' = IF queue = << >> THEN popped ELSE popped + 1
            /\ UNCHANGED cpc
       ELSE /\ cpc' = [cpc EXCEPT ![c] = "brpop"]
            /\ UNCHANGED <<pc, errRet, queue, popped>>
    /\ UNCHANGED <<clockVars, lock, wake, nowL, faults, failedOp,
                   everActive, peak, raced, nilRet>>

\* GetToken's select on dtb.errors: with fill blocked in its send the call
\* takes the error and returns it; otherwise it goes on to BRPop.
GetToken(c) ==
    /\ cpc[c] = "idle"
    /\ calls < MaxCalls
    /\ pc[HandleOf(c)] \notin {"none", "dead"}
    /\ IF pc[HandleOf(c)] = "send"
       THEN /\ pc' = Received(HandleOf(c))
            /\ errRet' = [errRet EXCEPT ![HandleOf(c)] = @ + 1]
            /\ UNCHANGED cpc
       ELSE /\ cpc' = [cpc EXCEPT ![c] = "brpop"]
            /\ UNCHANGED <<pc, errRet>>
    /\ UNCHANGED <<clockVars, storeVars, wake, nowL, faults, failedOp,
                   everActive, peak, raced, nilRet, popped>>

\* dtb.rc.BRPop(0, dtb.bucketName); return nil: an element is there (or
\* arrives) and the command removes the last one.
Pop(c) ==
    /\ cpc[c] = "brpop"
    /\ queue # << >>
    /\ queue' = SubSeq(queue, 1, Len(queue) - 1)
    /\ popped' = popped + 1
    /\ nilRet' = nilRet + 1
    /\ cpc' = [cpc EXCEPT ![c] = "idle"]
    /\ UNCHANGED <<clockVars, lock, pc, wake, nowL, faults, failedOp,
                   everActive, peak, raced, errRet>>

\* dtb.rc.BRPop(0, dtb.bucketName); return nil: the command fails.  Its
\* result is dropped, so the call returns nil all the same.
PopFails(c) ==
    /\ cpc[c] = "brpop"
    /\ faults < MaxFaults
    /\ faults' = faults + 1
    /\ nilRet' = nilRet + 1
    /\ cpc' = [cpc EXCEPT ![c] = "idle"]
    /\ UNCHANGED <<clockVars, storeVars, pc, wake, nowL, failedOp,
                   everActive, peak, raced, errRet, popped>>

BRPop(c) == Pop(c) \/ PopFails(c)

\* ---------------------------------------------------------------- environment

\* The owner dies ("the owner has likely perished"): its fill goroutine and
\* its pending GetToken calls are gone.
Crash(p) ==
    /\ Active(p)
    /\ pc' = [pc EXCEPT ![p] = "dead"]
    /\ wake' = [wake EXCEPT ![p] = 0]
    /\ cpc' = [c \in Callers |->
                 IF HandleOf(c) = p THEN "idle" ELSE cpc[c]]
    /\ UNCHANGED <<clockVars, storeVars, nowL, faults, failedOp,
                   everActive, peak, raced, nilRet, errRet, popped>>

\* The clock advances one unit.  A goroutine with a due step that has not
\* taken it by then has been held up (scheduling, network, a pause).
Advance ==
    /\ now < MaxTime
    /\ now' = now + 1
    /\ late' = [p \in Procs |-> late[p] \/ Due(p)]
    /\ IF \E p \in Procs : Due(p)
       THEN delays < MaxDelays /\ delays' = delays + 1
       ELSE UNCHANGED delays
    /\ UNCHANGED <<cadence, storeVars, pc, wake, nowL, faults, failedOp,
                   everActive, peak, raced, callVars>>

Next ==
    \/ \E p \in Procs : NewDTB(p)
    \/ \E p \in Procs : Fill(p)
    \/ \E c \in Callers : GetToken(c)
    \/ \E c \in Callers : BRPop(c)
    \/ \E p \in Procs : Crash(p)
    \/ Advance

Spec == Init /\ [][Next]_vars

\* The Go scheduler runs every runnable goroutine, Redis serves a blocked
\* BRPop once the list is non-empty, and the clock goes on.  Nothing obliges
\* a store command to fail, a process to start or to die, or a call to be made.
FairSpec ==
    /\ Spec
    /\ WF_vars(Advance)
    /\ \A p \in Procs : WF_vars(Fill(p))
    /\ \A c \in Callers : WF_vars(Pop(c))

\* The lease protocol alone: the fill goroutines, the clock and the death of
\* owners.  GetToken never touches the lock key.
LeaseNext ==
    \/ \E p \in Procs : NewDTB(p)
    \/ \E p \in Procs : Fill(p)
    \/ \E p \in Procs : Crash(p)
    \/ Advance

LeaseSpec ==
    /\ Init
    /\ [][LeaseNext]_vars
    /\ WF_vars(Advance)
    /\ \A p \in Procs : WF_vars(Fill(p))

\* ---------------------------------------------------------------- claims

\* p is Active, has never been held up and none of its commands has failed:
\* it ticks and rewrites the lock key once per cadence.
Ticking(p) == Active(p) /\ ~late[p] /\ failedOp[p] = "none"

\* C1: every GetToken call that returned nil removed exactly one token from
\* the list, so the nil returns never exceed the tokens pushed.
C1_NilReturnPopped == nilRet = popped /\ nilRet <= pushed

\* C2: with one filler ever Active the list never holds more than capacity
\* tokens, at capacity it does not grow, it grows by one token at a time and
\* by at most one token per cadence elapsed.
C2_SingleFillerBound ==
    /\ [](Cardinality(everActive) <= 1 =>
            /\ Len(queue) <= capacity
            /\ pushed * cadence <= now)
    /\ [][Cardinality(everActive') <= 1 =>
            /\ Len(queue') <= Len(queue) + 1
            /\ Len(queue) >= capacity => Len(queue') <= Len(queue)]_vars

C2_Witness ==
    \E p \in Procs :
        /\ everActive = {p}
        /\ pc[p] = "tick"
        /\ Len(queue) = capacity
        /\ popped > 0

\* C3: while an Active filler is alive and ticking, no other process's
\* acquireLock returns ownership.
C3_NoSecondOwner ==
    [][\A p, q \in Procs :
          (p # q /\ Ticking(p) /\ ~Active(q)) => ~Active(q)']_vars

\* C4: while a filler is Active and ticking, the lock key holds a value of at
\* least now + cadence.
C4_LeaseAhead ==
    \A p \in Procs :
        Ticking(p) => (lock # << >> /\ FromUnix(lock[1]) >= now + cadence)

\* The step is a write of the lock key by p as owner: a SetNX that set the
\* key, a GetSet that made p the owner, or the renewing Set.
OwnerWrite(p) ==
    \/ pc[p] \in {"setnx", "getset"} /\ pc'[p] = "llen"
    \/ pc[p] = "set" /\ pc'[p] = "tick" /\ faults' = faults

\* C5: every value an owner writes to the lock key is at least
\* now + 2 * cadence at the moment of the write (stated for the owners that
\* were never held up, whose clock reading is the time of the write).
C5_WriteTwoCadences ==
    [][\A p \in Procs :
          (OwnerWrite(p) /\ ~late[p]) =>
              FromUnix(lock'[1]) >= now + lockDuration]_vars

\* C6: over the life of a handle at most one GetToken call returns an error,
\* and once it has, fill has returned, so every later call finds dtb.errors
\* empty and goes on to BRPop.
C6_FaultSeenOnce ==
    \A h \in Procs :
        /\ errRet[h] <= 1
        /\ errRet[h] = 1 => pc[h] = "done"

C6_Witness ==
    \E c \in Callers : errRet[HandleOf(c)] = 1 /\ cpc[c] = "brpop"

\* C7: a call waiting in BRPop when fill reports a fault on its handle
\* eventually returns.
C7_BlockedCallReturns ==
    \A c \in Callers :
        (cpc[c] = "brpop" /\ pc[HandleOf(c)] = "send") ~> (cpc[c] = "idle")

\* C8: a failed store command of the fill loop is posted to dtb.errors and
\* stops the loop.
C8_FailurePosted ==
    \A p \in Procs : failedOp[p] # "none" => pc[p] \in {"send", "done"}

\* The latest time by which an attempt of an Acquiring process finds the
\* present lock value passed: one cadence after the value, or from now, and
\* later by the clock units the process may still be held up.
TakeoverBy ==
    cadence + (MaxDelays - delays)
      + (IF lock # << >> /\ FromUnix(lock[1]) > now
         THEN FromUnix(lock[1]) ELSE now)

\* C9: when no process is Active any more, a process that stays Acquiring
\* with a working store sees some process become Active, whatever the
\* interleaving of the attempts (as long as the clock's horizon leaves the
\* time for the lease to pass).
C9_Takeover ==
    \A q \in Procs :
        (Acquiring(q) /\ TakeoverBy <= MaxTime)
            ~> ((\E p \in Procs : Active(p)) \/ ~Acquiring(q))

C9_Witness ==
    \E p, q \in Procs :
        /\ pc[p] \in {"dead", "send", "done"}
        /\ p \in everActive
        /\ Active(q)
        /\ faults = 0

\* C10 as stated: even with two Active fillers the list never holds more
\* than capacity tokens.
C10_CapacityBound == Len(queue) <= capacity

\* C10 as amended: with two processes Active the list never holds more than
\* capacity + 1 tokens; the capacity test and the push are two commands.
C10_DoubleFillBound ==
    Cardinality(everActive) <= 2 => Len(queue) <= capacity + 1

C10_Witness ==
    /\ \A p \in Procs : Active(p)
    /\ Len(queue) = capacity + 1

\* C11: of the processes that read the same passed lease before any of them
\* swapped, every one whose GetSet comes after the first returns not-owner
\* (stated for executions in which no goroutine has been held up).
C11_OneWinner ==
    [][\A q \in Procs :
          (/\ pc[q] = "getset"
           /\ q \in raced
           /\ delays = 0
           /\ pc'[q] \notin {"getset", "send"}) => pc'[q] = "sleep"]_vars

\* C12: once a store command of p's fill loop has failed, p's loop takes no
\* further step (no push, no renewal, no attempt), and a loop that failed
\* while Acquiring was never Active.
C12_StoppedForGood ==
    /\ [](\A p \in Procs :
            failedOp[p] \in {"setnx", "get", "getset"} => p \notin everActive)
    /\ [][\A p \in Procs : failedOp[p] # "none" => ~Fill(p)]_vars

\* C13: a GetToken call that returns a fault issues no store command: the
\* step in which it returns leaves the queue, the pop count and the lock key
\* as they were, cannot meet a store failure, and leaves no call in BRPop
\* that was not there.
C13_FaultReturnNoPop ==
    [][errRet' # errRet =>
          /\ queue' = queue
          /\ popped' = popped
          /\ lock' = lock
          /\ faults' = faults
          /\ cpc' = cpc]_vars

\* A fault has been returned while a token was there to be taken.
C13_Witness ==
    \E p \in Procs : errRet[p] > 0 /\ queue # << >> /\ popped = 0

\* C14: an acquireLock call whose GET reads a value that has not passed at
\* the call's clock reading returns nil, nil and leaves the lock key as it
\* was; the call goes on to GETSET only after reading a passed value; and a
\* step of an Acquiring process changes the lock key only as a SETNX on an
\* absent key or as that GETSET.
C14_ValidLeaseUntouched ==
    [][\A p \in Procs :
          /\ (/\ pc[p] = "get"
              /\ FromUnix(lock[1]) >= nowL[p]
              /\ pc'[p] # "get"
              /\ faults' = faults)
                 => (pc'[p] = "sleep" /\ lock' = lock)
          /\ (pc[p] = "get" /\ pc'[p] = "getset")
                 => FromUnix(lock[1]) < nowL[p]
          /\ (Acquiring(p) /\ pc'[p] # pc[p] /\ lock' # lock)
                 => \/ pc[p] = "setnx" /\ lock = << >>
                    \/ pc[p] = "getset"]_vars

\* A process has just come back from acquireLock as not-owner while another
\* process holds a lease that is still ahead, and no command has failed.
C14_Witness ==
    \E p \in Procs : \E q \in Procs \ {p} :
        /\ pc[p] = "sleep"
        /\ now >= SecUnits
        /\ wake[p] = now + cadence
        /\ Active(q)
        /\ lock # << >>
        /\ FromUnix(lock[1]) > now
        /\ faults = 0
        /\ delays = 0

\* C15: every pass of the Active loop that meets no store failure ends in the
\* renewing SET: a length read that finds the list at capacity pushes
\* nothing and goes to the SET, a push goes to the SET, the SET is reached
\* only from that pass's length read or push and writes now + 2 * cadence
\* (as whole seconds) to the lock key, and the wait for the next tick is
\* reached only through the SET.
C15_RenewEveryTick ==
    [][\A p \in Procs :
          /\ (pc[p] = "llen" /\ pc'[p] \notin {"llen", "send", "dead"})
                 => /\ pc'[p] = IF Len(queue) < capacity THEN "lpush" ELSE "set"
                    /\ queue' = queue
          /\ (pc[p] = "lpush" /\ pc'[p] \notin {"lpush", "send", "dead"})
                 => pc'[p] = "set" /\ Len(queue') = Len(queue) + 1
          /\ (pc'[p] = "set" /\ pc[p] # "set")
                 => pc[p] \in {"llen", "lpush"}
          /\ (pc[p] = "set" /\ pc'[p] \notin {"set", "dead"})
                 => /\ pc'[p] = "tick"
                    /\ queue' = queue
                    /\ faults' = faults => lock' = <<Unix(now + 2 * cadence)>>
          /\ (pc'[p] = "tick" /\ pc[p] # "tick")
                 => pc[p] = "set"
          /\ (pc[p] = "tick" /\ pc'[p] \notin {"tick", "dead"})
                 => pc'[p] = "llen" /\ wake[p] <= now]_vars

\* The only filler, never held up, has filled the list and has since renewed
\* the lease on a pass that pushed nothing: it started before SecUnits,
\* became owner one cadence later and pushed on its first capacity passes,
\* and its last pass began one cadence before the tick it now waits for.
C15_Witness ==
    \E p \in Procs :
        /\ everActive = {p}
        /\ pc[p] = "tick"
        /\ ~late[p]
        /\ faults = 0
        /\ popped = 0
        /\ Len(queue) = capacity
        /\ lock = <<LockVal(now)>>
        /\ wake[p] >= (SecUnits - 1) + (capacity + 2) * cadence

\* C16: the list changes only by one LPUSH of a process that acquireLock
\* made owner and that is in its Active loop, or by one BRPOP of a GetToken
\* call on a list that is not empty; no step of an Acquiring process changes
\* it, and a process that was never made owner is never in the Active loop.
C16_QueueWriters ==
    /\ [](\A p \in Procs : Active(p) => p \in everActive)
    /\ [][/\ queue' # queue =>
              \/ /\ queue' = <<Token>> \o queue
                 /\ popped' = popped
                 /\ \E p \in Procs :
                       /\ pc[p] = "lpush"
                       /\ pc'[p] = "set"
                       /\ p \in everActive
              \/ /\ queue # << >>
                 /\ queue' = SubSeq(queue, 1, Len(queue) - 1)
                 /\ popped' = popped + 1
                 /\ pc' = pc
                 /\ \E c \in Callers :
                       cpc[c] = "brpop" /\ cpc'[c] = "idle"
          /\ popped' # popped => Len(queue') = Len(queue) - 1
          /\ \A p \in Procs :
                (Acquiring(p) /\ pc'[p] # pc[p]) => queue' = queue]_vars

\* Tokens have been pushed and popped, and a process that read a passed
\* lease is in its takeover while the other process's swap has already put
\* a lease that is still ahead: its own swap will overwrite the key and
\* return not-owner.
C16_Witness ==
    \E p \in Procs :
        /\ pc[p] = "getset"
        /\ p \in raced
        /\ p \notin everActive
        /\ StillHeld(lock[1], nowL[p])
        /\ popped > 0
        /\ queue # << >>

\* Fillers that have passed the capacity test and not yet pushed.
pending == Cardinality({p \in Procs : pc[p] = "lpush"})

\* C17: with at most peak processes Active at one time so far, the list
\* together with the pushes already decided never exceeds
\* capacity + peak - 1, at any time and after any number of ticks; so with
\* fillers that only followed one another the list never exceeds capacity.
C17_OvershootPerFiller ==
    peak >= 1 => Len(queue) + pending <= capacity + peak - 1

\* Two fillers Active at one time have overshot by one token, tokens have
\* been popped since the first push, and both fillers have finished the
\* pass of their push and wait for the next tick.
C17_Witness ==
    /\ peak = 2
    /\ Len(queue) = capacity + peak - 1
    /\ popped > 0
    /\ \A p \in Procs : pc[p] = "tick" /\ wake[p] > now

\* C18: while a call waits in BRPop and a process p is Active with none of its
\* store commands failed and its next tick within the clock's horizon, a
\* token is pushed and taken by a waiting call; or else p has died or met a
\* store failure, or no call waits any more.
C18_BlockedCallServed ==
    \A p \in Procs : \A n \in 0..(MaxCalls - 1) :
        (/\ \E c \in Callers : cpc[c] = "brpop"
         /\ Active(p)
         /\ failedOp[p] = "none"
         /\ wake[p] <= MaxTime
         /\ popped = n)
            ~> (\/ popped > n
                \/ ~Active(p)
                \/ failedOp[p] # "none"
                \/ \A c \in Callers : cpc[c] # "brpop")

\* The one token pushed so far has gone to a call before its filler ended the
\* pass of the push, no command has failed, and a further call waits on the
\* empty list with the filler's next tick still to come.
C18_Witness ==
    \E p \in Procs :
        /\ pc[p] = "set"
        /\ wake[p] <= MaxTime
        /\ faults = 0
        /\ queue = << >>
        /\ popped = 1
        /\ nilRet = 1
        /\ \E c \in Callers : cpc[c] = "brpop"

====
